---------------------------- MODULE Spec2Model ----------------------------
(***************************************************************************)
(* Model of the documentation-generation scripts: the image introspector   *)
(* (generate_image_readme.py, run_image_readme.py) and the registry        *)
(* enumerator (generate_main_readme.py, docs_ecr_image_list.py).           *)
(*                                                                         *)
(* Text is a sequence of one-character strings.  A dict is a function      *)
(* whose domain is its key set.                                            *)
(***************************************************************************)
EXTENDS Integers, Sequences, FiniteSets, TLC

VARIABLES
    \* ---- key-value parsing (parse_kv, parse_key_value_output)
    pIn,        \* the text handed to the parser
    pFn,        \* which parser has been applied ("none" before)
    pOut,       \* the dict it returned
    \* ---- image introspector (main of generate_image_readme.py / run_image_readme.py)
    variant,    \* "batch" (generate_image_readme.py) or "single" (run_image_readme.py)
    argv,       \* sys.argv[1:], the command-line arguments
    srcDirs,    \* the directories that exist under SRC_PATH
    dirs,       \* the image directories glob returned, in its order (batch)
    idx,        \* how many of them the for loop has taken
    cur,        \* image_name / docker_image_name being processed, None before
    pc,         \* position in main
    connected,  \* docker.from_env() has returned a client
    loc,        \* the locals of the current iteration (pull, arch, os_release, ...)
    ran,        \* the containers run for the current image: [cmd, res, out]
    readme,     \* per image directory, the state of its readme.md
    attempted,  \* the images whose processing was begun, in order
    failedLog,  \* the images main's handler logged at [ERROR]
    exitCode,   \* None while running; the process exit status after
    raised,     \* an exception escaped main
    \* ---- get_latest_image_info on its own
    lIn,        \* what client.describe_images did
    lFn,        \* which script's get_latest_image_info was applied ("none" before)
    lOut,       \* what it returned
    \* ---- registry enumerator (main of generate_main_readme.py / docs_ecr_image_list.py)
    script,     \* "generate_main_readme" or "docs_ecr_image_list"
    pages,      \* the pages describe_repositories yields, in the API's order
    cpc,        \* position in main
    fetched,    \* how many pages get_repositories has consumed
    listAcc,    \* repos of get_repositories, as accumulated
    listFailed, \* get_repositories logged "[ERROR] Failed to list repositories"
    repos,      \* repos of main: the sorted list
    resp,       \* what describe_images answered for repos[i]
    items,      \* the rows appended so far
    outFile,    \* the state of README_OUTPUT_PATH
    craised     \* an exception escaped main

parseVars == <<pIn, pFn, pOut>>
introVars == <<variant, argv, srcDirs, dirs, idx, cur, pc, connected, loc, ran,
               readme, attempted, failedLog, exitCode, raised>>
latestVars == <<lIn, lFn, lOut>>
catalogVars == <<script, pages, cpc, fetched, listAcc, listFailed, repos, resp,
                 items, outFile, craised>>
vars == <<parseVars, introVars, latestVars, catalogVars>>

(***************************************************************************)
(* Bounds                                                                  *)
(***************************************************************************)
MaxTextLen == 4
MaxDirs == 2
MaxArgs == 2
MaxImages == 2
MaxTime == 2
MaxRepos == 3
MaxPages == 2

(***************************************************************************)
(* Text primitives (str.strip, str.splitlines, str.split, "in")            *)
(***************************************************************************)
NL == "\n"
QUOTE == "\""
EQ == "="

\* the characters str.strip() removes, among those of the alphabets used here
Whitespace == {" ", NL}

RECURSIVE LStripChars(_, _)
LStripChars(s, cs) ==
    IF s # <<>> /\ Head(s) \in cs THEN LStripChars(Tail(s), cs) ELSE s

RECURSIVE RStripChars(_, _)
RStripChars(s, cs) ==
    IF s # <<>> /\ s[Len(s)] \in cs
    THEN RStripChars(SubSeq(s, 1, Len(s) - 1), cs)
    ELSE s

\* str.strip(chars): leading and trailing characters of the set removed
StripChars(s, cs) == RStripChars(LStripChars(s, cs), cs)

\* str.strip()
Strip(s) == StripChars(s, Whitespace)

\* "c in s"
Contains(s, c) == \E i \in 1..Len(s) : s[i] = c

\* index of the first occurrence of c in s, Len(s)+1 when there is none
FirstIndex(s, c) ==
    IF Contains(s, c)
    THEN CHOOSE i \in 1..Len(s) : s[i] = c /\ \A j \in 1..(i - 1) : s[j] # c
    ELSE Len(s) + 1

\* str.splitlines(): lines without their terminator, no final empty line
RECURSIVE SplitLines(_)
SplitLines(s) ==
    IF s = <<>> THEN <<>>
    ELSE LET i == FirstIndex(s, NL) IN
         IF i > Len(s) THEN <<s>>
         ELSE <<SubSeq(s, 1, i - 1)>> \o SplitLines(SubSeq(s, i + 1, Len(s)))

\* line.split("=", 1) of a line that contains "="
SplitFirstEq(line) ==
    LET i == FirstIndex(line, EQ) IN
    <<SubSeq(line, 1, i - 1), SubSeq(line, i + 1, Len(line))>>

(***************************************************************************)
(* dict                                                                    *)
(***************************************************************************)
EmptyDict == [k \in {} |-> <<>>]

\* d[k] = v
DictPut(d, k, v) == [x \in (DOMAIN d) \cup {k} |-> IF x = k THEN v ELSE d[x]]

\* d.get(k), None when the key is absent
None == "None"
DictGet(d, k) == IF k \in DOMAIN d THEN d[k] ELSE None

\* the orders in which the elements of a set may be listed (glob, the paginator)
Orderings(S) ==
    {s \in [1..Cardinality(S) -> S] : \A i, j \in 1..Cardinality(S) : i # j => s[i] # s[j]}

(***************************************************************************)
(* parse_kv (batch variant): dict(line.split("=", 1) for line in           *)
(* output.strip().splitlines() if "=" in line)                             *)
(***************************************************************************)
RECURSIVE KvFromLines(_, _)
KvFromLines(lines, d) ==
    IF lines = <<>> THEN d
    ELSE LET line == Head(lines) IN
         IF Contains(line, EQ)
         THEN LET kv == SplitFirstEq(line) IN
              KvFromLines(Tail(lines), DictPut(d, kv[1], kv[2]))
         ELSE KvFromLines(Tail(lines), d)

parse_kv(output) == KvFromLines(SplitLines(Strip(output)), EmptyDict)

(***************************************************************************)
(* parse_key_value_output (single-image variant): as parse_kv, and         *)
(* result[key] = value.strip('"')                                          *)
(***************************************************************************)
RECURSIVE KvStrippedFromLines(_, _)
KvStrippedFromLines(lines, result) ==
    IF lines = <<>> THEN result
    ELSE LET line == Head(lines) IN
         IF Contains(line, EQ)
         THEN LET kv == SplitFirstEq(line) IN
              KvStrippedFromLines(Tail(lines),
                  DictPut(result, kv[1], StripChars(kv[2], {QUOTE})))
         ELSE KvStrippedFromLines(Tail(lines), result)

parse_key_value_output(output) ==
    KvStrippedFromLines(SplitLines(Strip(output)), EmptyDict)

(***************************************************************************)
(* Inputs of the parsers: every text over a small alphabet, and the        *)
(* os-release example  ID="alpine" / VERSION_ID=3.18 / NOTAG               *)
(***************************************************************************)
ParseAlphabet == {"K", EQ, QUOTE, NL}

TextsUpTo(n, alphabet) == UNION {[1..m -> alphabet] : m \in 0..n}

ExampleText ==
    <<"I","D","=",QUOTE,"a","l","p","i","n","e",QUOTE,NL,
      "V","E","R","S","I","O","N","_","I","D","=","3",".","1","8",NL,
      "N","O","T","A","G">>

ExampleDict ==
    [k \in {<<"I","D">>, <<"V","E","R","S","I","O","N","_","I","D">>} |->
        IF k = <<"I","D">> THEN <<"a","l","p","i","n","e">>
        ELSE <<"3",".","1","8">>]

ParseInputs == TextsUpTo(MaxTextLen, ParseAlphabet) \cup {ExampleText}

(***************************************************************************)
(* Registry enumerator: get_latest_image_info                              *)
(***************************************************************************)
LATEST == "latest"
NONE_TAG == "<none>"

\* an image detail record without the key "imagePushedAt"
Absent == -1

MiB == 1024 * 1024

\* a float that is a quotient of integers, kept exact
Quot(n, d) == [num |-> n, den |-> d]

\* the sentinel result ("<none>", 0)
Sentinel == [exc |-> "none", tag |-> NONE_TAG, size_mb |-> Quot(0, 1)]

\* any(tag != "latest" for tag in img.get("imageTags", []))
HasNonLatestTag(img) == \E i \in 1..Len(img.imageTags) : img.imageTags[i] # LATEST

\* non_latest_images = [img for img in images if any(...)]
NonLatestImages(images) == SelectSeq(images, HasNonLatestTag)

\* target_images = non_latest_images or images
TargetImages(images) ==
    IF NonLatestImages(images) # <<>> THEN NonLatestImages(images) ELSE images

\* max(target_images, key=lambda img: img.get("imagePushedAt", datetime.min)):
\* the first image whose key no later one exceeds.  The keys of the registry
\* are timezone-aware, datetime.min is naive: comparing one with the other
\* raises TypeError.  best is the maximum so far; the result is
\* [exc, img].
RECURSIVE MaxFrom(_, _)
MaxFrom(best, rest) ==
    IF rest = <<>> THEN [exc |-> "none", img |-> best]
    ELSE LET x == Head(rest) IN
         IF (x.imagePushedAt = Absent) # (best.imagePushedAt = Absent)
         THEN [exc |-> "TypeError", img |-> best]
         ELSE IF x.imagePushedAt > best.imagePushedAt
         THEN MaxFrom(x, Tail(rest))
         ELSE MaxFrom(best, Tail(rest))

MaxByPushedAt(target) == MaxFrom(Head(target), Tail(target))

\* tag = next((t for t in tags if t != "latest"), tags[0] if tags else "<none>")
IsNotLatest(t) == t # LATEST

PickFirstTag(tags) == IF tags # <<>> THEN tags[1] ELSE NONE_TAG

PickTag(tags) ==
    IF SelectSeq(tags, IsNotLatest) # <<>> THEN Head(SelectSeq(tags, IsNotLatest))
    ELSE IF tags # <<>> THEN tags[1]
    ELSE NONE_TAG

\* The try block.  A response is what client.describe_images did: kind "ok"
\* with the imageDetails, or the exception it raised.
LatestTryBlock(response) ==
    IF response.kind # "ok"
    THEN [exc |-> response.kind, tag |-> NONE_TAG, size_mb |-> Quot(0, 1)]
    ELSE IF response.images = <<>> THEN Sentinel
    ELSE LET m == MaxByPushedAt(TargetImages(response.images)) IN
         IF m.exc # "none"
         THEN [exc |-> m.exc, tag |-> NONE_TAG, size_mb |-> Quot(0, 1)]
         ELSE [exc |-> "none",
               tag |-> PickTag(m.img.imageTags),
               size_mb |-> Quot(m.img.imageSizeInBytes, MiB)]

\* the except clauses: RepositoryNotFoundException, then Exception
LookupCatchesNotFoundOnly(exc) == exc = "RepositoryNotFoundException"

LookupCatches(exc) == TRUE

\* get_latest_image_info of generate_main_readme.py: [exc, tag, size_mb], exc
\* being the exception that leaves the function ("none": it returned)
get_latest_image_info(response) ==
    LET r == LatestTryBlock(response) IN
    IF r.exc = "none" THEN r
    ELSE IF LookupCatches(r.exc) THEN Sentinel
    ELSE r

\* get_latest_image_info of docs_ecr_image_list.py: the same try block; both
\* except clauses fall through to the final return "<none>", 0
get_latest_image_info_docs(response) ==
    LET r == LatestTryBlock(response) IN
    IF r.exc = "none" THEN r
    ELSE IF LookupCatches(r.exc) THEN Sentinel
    ELSE r

\* image detail records
TagLists == {<<>>, <<LATEST>>, <<"v1">>, <<LATEST, "v1">>, <<"v2", LATEST>>}

ImageRecords ==
    [imageTags : TagLists,
     imagePushedAt : {Absent} \cup (1..MaxTime),
     imageSizeInBytes : {1572864, 10485760}]

ImageLists == UNION {[1..n -> ImageRecords] : n \in 0..MaxImages}

LookupFailures == {"RepositoryNotFoundException", "ClientError"}

Responses(lists) ==
    {[kind |-> "ok", images |-> l] : l \in lists}
        \cup {[kind |-> k, images |-> <<>>] : k \in LookupFailures}

LatestIdle ==
    /\ lIn = [kind |-> "idle", images |-> <<>>]
    /\ lFn = "idle"
    /\ lOut = Sentinel

(***************************************************************************)
(* Registry enumerator: get_repositories and main                          *)
(***************************************************************************)
\* AWS_ECR_PUBLIC_REPOSITORY_GROUP = "base"
AWS_ECR_PUBLIC_REPOSITORY_GROUP == <<"b","a","s","e">>

\* AWS_ECR_PUBLIC_URI = "public.ecr.aws/dev1-sg"
AWS_ECR_PUBLIC_URI ==
    <<"p","u","b","l","i","c",".","e","c","r",".","a","w","s","/",
      "d","e","v","1","-","s","g">>

\* the repository names the registry may hold: "base/b", "base/a", "app/x",
\* "base", "basement/c"
RepoNames ==
    << <<"b","a","s","e","/","b">>,
       <<"b","a","s","e","/","a">>,
       <<"a","p","p","/","x">>,
       <<"b","a","s","e">>,
       <<"b","a","s","e","m","e","n","t","/","c">> >>

RepoSet == {RepoNames[k] : k \in 1..(IF MaxRepos < Len(RepoNames) THEN MaxRepos ELSE Len(RepoNames))}

\* the code point of a character of those names
Ord(c) ==
    CASE c = "/" -> 47 [] c = "a" -> 97 [] c = "b" -> 98 [] c = "c" -> 99
      [] c = "e" -> 101 [] c = "m" -> 109 [] c = "n" -> 110 [] c = "p" -> 112
      [] c = "s" -> 115 [] c = "t" -> 116 [] c = "x" -> 120

\* a < b of two str: lexicographic by code point
RECURSIVE StrLess(_, _)
StrLess(a, b) ==
    IF b = <<>> THEN FALSE
    ELSE IF a = <<>> THEN TRUE
    ELSE IF Head(a) # Head(b) THEN Ord(Head(a)) < Ord(Head(b))
    ELSE StrLess(Tail(a), Tail(b))

\* name.startswith(prefix)
StartsWith(name, prefix) ==
    Len(name) >= Len(prefix) /\ SubSeq(name, 1, Len(prefix)) = prefix

\* the repositories of a page that get_repositories appends
RECURSIVE FilterPage(_, _)
FilterPage(page, prefix) ==
    IF page = <<>> THEN <<>>
    ELSE IF StartsWith(Head(page).repositoryName, prefix)
    THEN <<Head(page)>> \o FilterPage(Tail(page), prefix)
    ELSE FilterPage(Tail(page), prefix)

\* sorted(..., key=lambda r: r["repositoryName"]): a stable sort
RECURSIVE InsertByName(_, _)
InsertByName(r, s) ==
    IF s = <<>> THEN <<r>>
    ELSE IF StrLess(r.repositoryName, Head(s).repositoryName)
    THEN <<r>> \o s
    ELSE <<Head(s)>> \o InsertByName(r, Tail(s))

RECURSIVE SortedFrom(_, _)
SortedFrom(todo, done) ==
    IF todo = <<>> THEN done
    ELSE SortedFrom(Tail(todo), InsertByName(Head(todo), done))

NotSorted(rs) == rs

SortedByName(rs) == SortedFrom(rs, <<>>)

\* get_repositories, "except Exception as e: print(...); raise"
ListingFailureSwallowed == FALSE

ListingFailureReraised == TRUE

\* f"{x:.2f}" of a non-negative quotient: the digits of its value rounded to
\* hundredths, halves to even
Hundredths(q) ==
    LET n == q.num * 100
        h == n \div q.den
        r == n % q.den
    IN IF 2 * r > q.den \/ (2 * r = q.den /\ h % 2 = 1) THEN h + 1 ELSE h

DigitChars == <<"0","1","2","3","4","5","6","7","8","9">>

RECURSIVE Digits(_)
Digits(n) ==
    IF n < 10 THEN <<DigitChars[n + 1]>>
    ELSE Digits(n \div 10) \o <<DigitChars[(n % 10) + 1]>>

Format2f(q) ==
    LET h == Hundredths(q) IN
    Digits(h \div 100) \o <<".">> \o
        <<DigitChars[((h % 100) \div 10) + 1], DigitChars[(h % 10) + 1]>>

\* name.split("/")[0] if "/" in name else "-"
GroupOf(name) ==
    IF Contains(name, "/") THEN SubSeq(name, 1, FirstIndex(name, "/") - 1)
    ELSE <<"-">>

\* the dict main appends to items
Item(i, name, latest) ==
    [number |-> i,
     name |-> name,
     group |-> GroupOf(name),
     uri |-> AWS_ECR_PUBLIC_URI \o <<"/">> \o name,
     latest_tag |-> latest.tag,
     image_size_mb |-> Format2f(latest.size_mb)]

\* the get_latest_image_info of a script
LatestOf(s, response) ==
    IF s = "generate_main_readme" THEN get_latest_image_info(response)
    ELSE get_latest_image_info_docs(response)

\* what describe_images may answer during a run of main
ImgV1 == [imageTags |-> <<"v1">>, imagePushedAt |-> 2, imageSizeInBytes |-> 10485760]
ImgLatest == [imageTags |-> <<LATEST>>, imagePushedAt |-> 1, imageSizeInBytes |-> 1572864]
ImgNoTime == [imageTags |-> <<"v2", LATEST>>, imagePushedAt |-> Absent, imageSizeInBytes |-> 1572864]

CatalogImageLists == {<<>>, <<ImgV1>>, <<ImgLatest>>, <<ImgNoTime, ImgV1>>}

\* the pages the paginator may yield: at least one, no repository twice
PageSeqs(S) == UNION {Orderings(T) : T \in SUBSET S}

NamesOfPage(p) == {p[i] : i \in 1..Len(p)}

PageLists ==
    {ps \in UNION {[1..n -> PageSeqs(RepoSet)] : n \in 1..MaxPages} :
        \A i, j \in 1..Len(ps) : i # j => NamesOfPage(ps[i]) \cap NamesOfPage(ps[j]) = {}}

AsRepos(p) == [i \in 1..Len(p) |-> [repositoryName |-> p[i]]]

CatalogIdle ==
    /\ script = "idle"
    /\ pages = <<>>
    /\ cpc = "idle"
    /\ fetched = 0
    /\ listAcc = <<>>
    /\ listFailed = FALSE
    /\ repos = <<>>
    /\ resp = <<>>
    /\ items = <<>>
    /\ outFile = "old"
    /\ craised = FALSE

IntroIdle ==
    /\ variant = "idle"
    /\ argv = <<>>
    /\ srcDirs = {}
    /\ dirs = <<>>
    /\ idx = 0
    /\ cur = None
    /\ pc = "idle"
    /\ connected = FALSE
    /\ loc = <<>>
    /\ ran = <<>>
    /\ readme = <<>>
    /\ attempted = <<>>
    /\ failedLog = <<>>
    /\ exitCode = None
    /\ raised = FALSE

ParseInit ==
    /\ IntroIdle
    /\ LatestIdle
    /\ CatalogIdle
    /\ pIn \in ParseInputs
    /\ pFn = "none"
    /\ pOut = EmptyDict

ParseIdle ==
    /\ pIn = <<>>
    /\ pFn = "idle"
    /\ pOut = EmptyDict

\* generate_image_readme.py applies parse_kv to the os-release output
ParseKv ==
    /\ pFn = "none"
    /\ pFn' = "parse_kv"
    /\ pOut' = parse_kv(pIn)
    /\ UNCHANGED <<pIn, introVars, latestVars, catalogVars>>

\* run_image_readme.py applies parse_key_value_output to it
ParseKeyValueOutput ==
    /\ pFn = "none"
    /\ pFn' = "parse_key_value_output"
    /\ pOut' = parse_key_value_output(pIn)
    /\ UNCHANGED <<pIn, introVars, latestVars, catalogVars>>

ParseNext == ParseKv \/ ParseKeyValueOutput

SpecParse == ParseInit /\ [][ParseNext]_vars

(***************************************************************************)
(* C4: key-value parsing, in both variants: lines without "=" are skipped, *)
(* each remaining line is split at its first "=" only, and the quote       *)
(* characters around the value are stripped; the os-release example yields *)
(* exactly ID -> alpine, VERSION_ID -> 3.18.                               *)
(***************************************************************************)
\* the lines of the text that carry a key
KvLines(text) ==
    LET lines == SplitLines(Strip(text)) IN
    {i \in 1..Len(lines) : Contains(lines[i], EQ)}

\* what the claim says the parser yields for a text
ClaimedDict(text) ==
    LET lines == SplitLines(Strip(text))
        keyOf(i) == SubSeq(lines[i], 1, FirstIndex(lines[i], EQ) - 1)
        valOf(i) == StripChars(
                        SubSeq(lines[i], FirstIndex(lines[i], EQ) + 1, Len(lines[i])),
                        {QUOTE})
        last(k) == CHOOSE i \in KvLines(text) :
                       /\ keyOf(i) = k
                       /\ \A j \in KvLines(text) : keyOf(j) = k => j <= i
    IN [k \in {keyOf(i) : i \in KvLines(text)} |-> valOf(last(k))]

C4_BothParsersStripQuotes ==
    pFn \in {"parse_kv", "parse_key_value_output"} =>
        /\ pOut = ClaimedDict(pIn)
        /\ pIn = ExampleText => pOut = ExampleDict

\* the part of C4 that the single-image parser meets
C4_SingleParserStripsQuotes ==
    pFn = "parse_key_value_output" =>
        /\ pOut = ClaimedDict(pIn)
        /\ pIn = ExampleText => pOut = ExampleDict

C4_ExampleParsedByBatch ==
    pFn = "parse_kv" /\ pIn = ExampleText

(***************************************************************************)
(* Image introspector                                                      *)
(***************************************************************************)
ImageNames == <<"alpine", "debian", "python", "ubuntu">>

\* the image directories that may exist under SRC_PATH
ImageSet == {ImageNames[k] : k \in 1..(IF MaxDirs < Len(ImageNames) THEN MaxDirs ELSE Len(ImageNames))}

\* the diagnostic commands
CmdOsRelease == "cat /etc/os-release"
CmdEnv == "env"
CmdApk == "apk info"
CmdApt == "sh -c 'apt list | tail -n +2'"
CmdLocalBins == "ls -1 /usr/local/bin"

\* what a command may print
Outputs(cmd) ==
    CASE cmd = CmdOsRelease ->
            {<<"I","D","=",QUOTE,"a",QUOTE,NL>>, <<"N","O","T","A","G",NL>>}
      [] cmd = CmdEnv -> {<<"P","=","1",NL>>}
      [] cmd = CmdApk -> {<<"m",NL,"z",NL>>, <<NL,"m">>}
      [] cmd = CmdApt -> {<<"d",NL>>}
      [] cmd = CmdLocalBins -> {<<"x",NL>>, <<>>}

\* The ways client.containers.run(...) followed by output.decode() ends badly:
\*   ContainerError      the command exits non-zero
\*   APIError            the daemon refuses (binary missing, image not found, ...)
\*   InvalidVersion      a DockerException that is neither: the daemon's API
\*                       version does not support the platform argument
\*   UnicodeDecodeError  the command succeeded and its output is not valid UTF-8
RunFailures == {"ContainerError", "APIError", "InvalidVersion", "UnicodeDecodeError"}

\* the subclasses of docker.errors.DockerException among them
DockerExceptions == {"ContainerError", "APIError", "InvalidVersion"}

\* what running cmd in a container may do: print an output or fail
RunOutcomes(cmd) ==
    {[res |-> "ok", out |-> o] : o \in Outputs(cmd)}
        \cup {[res |-> f, out |-> <<>>] : f \in RunFailures}

\* run_cmd / run_container_command: the decoded output, or the exception, which
\* both handlers re-raise after printing it
run_cmd(cmd, outcome) == [cmd |-> cmd, res |-> outcome.res, out |-> outcome.out]

\* the except clauses of the package step:
\*   get_pkgs                   except docker.errors.DockerException
\*   run_command_with_fallback  except (ContainerError, APIError)
PkgCatchesNothing(v, exc) == FALSE

PkgCatches(v, exc) ==
    IF v = "batch" THEN exc \in DockerExceptions
    ELSE exc \in {"ContainerError", "APIError"}

\* the lines a variant makes of an output: .splitlines() in the batch variant,
\* .strip().splitlines() in the single-image variant
LinesOf(v, out) == IF v = "batch" THEN SplitLines(out) ELSE SplitLines(Strip(out))

\* the os-release parser of a variant
ParseOsRelease(v, out) ==
    IF v = "batch" THEN parse_kv(out) ELSE parse_key_value_output(out)

\* pull_image: the pull stream ends "ok", or carries an "error" entry (printed,
\* the loop goes on), or low_level.pull raises; then client.images.get(image_name)
\* finds the image in the local store or raises ImageNotFound (an APIError).
\* The result is "image" or the exception that leaves pull_image.
PullStreams == {"ok", "error_entry", "APIError", "ConnectionError"}

pull_image_swallowing(stream, cached) == "image"

pull_image(stream, cached) ==
    CASE stream = "ok" -> "image"
      [] stream = "error_entry" -> IF cached THEN "image" ELSE "APIError"
      [] OTHER -> stream

\* the locals of one iteration, before anything ran
NoPull == [stream |-> "none", cached |-> FALSE, result |-> "none"]

NoLocals ==
    [pull |-> NoPull, arch |-> None, os_release |-> None, env_vars |-> None,
     pkgs |-> None, pkgStep |-> "none", warned |-> FALSE, local_bins |-> None,
     template |-> None, rendered |-> FALSE, output |-> None, failedAt |-> None]

IntroInit ==
    /\ ParseIdle
    /\ LatestIdle
    /\ CatalogIdle
    /\ variant \in {"batch", "single"}
    /\ srcDirs \in SUBSET ImageSet
    /\ IF variant = "batch"
       THEN /\ argv = <<>>
            /\ dirs \in Orderings(srcDirs)
            /\ pc = "connect"
       ELSE /\ argv \in UNION {[1..n -> ImageSet] : n \in 0..MaxArgs}
            /\ dirs = <<>>
            /\ pc = "args"
    /\ idx = 0
    /\ cur = None
    /\ connected = FALSE
    /\ loc = NoLocals
    /\ ran = <<>>
    /\ readme = [d \in srcDirs |-> "old"]
    /\ attempted = <<>>
    /\ failedLog = <<>>
    /\ exitCode = None
    /\ raised = FALSE

\* main's "except Exception as e": every failure of the try block is caught
MainCatchesNothing(exc) == FALSE

MainCatches(exc) == TRUE

\* A step of the try block failed with exc at position pc: main's handler
\* prints [ERROR] and the batch loop goes on to the next directory; the
\* single-image main returns.
StepFails(exc, l) ==
    /\ loc' = [l EXCEPT !.failedAt = pc]
    /\ IF MainCatches(exc)
       THEN /\ failedLog' = Append(failedLog, cur)
            /\ pc' = IF variant = "batch" THEN "loop" ELSE "done"
            /\ exitCode' = IF variant = "batch" THEN exitCode ELSE 0
            /\ UNCHANGED raised
       ELSE /\ raised' = TRUE
            /\ pc' = "done"
            /\ exitCode' = 1
            /\ UNCHANGED failedLog

\* run_image_readme.py main, lines 83-92: len(sys.argv) == 2 and
\* os.path.isdir(os.path.join(SRC_PATH, keyword))
ArgsValidCountOnly(args, existing) == Len(args) = 1

ArgsValid(args, existing) == Len(args) = 1 /\ args[1] \in existing

\* run_image_readme.py main, lines 83-92: argument validation; sys.exit(1)
\* when it fails
CheckArgs ==
    /\ pc = "args"
    /\ IF ~ArgsValid(argv, srcDirs)
       THEN pc' = "done" /\ exitCode' = 1
       ELSE pc' = "connect" /\ UNCHANGED exitCode
    /\ UNCHANGED <<parseVars, latestVars, catalogVars, variant, argv, srcDirs, dirs, idx, cur, connected,
                   loc, ran, readme, attempted, failedLog, raised>>

\* client = docker.from_env(), outside the try block of both mains
Connect ==
    /\ pc = "connect"
    /\ \E ok \in BOOLEAN :
        IF ok
        THEN /\ connected' = TRUE
             /\ IF variant = "batch"
                THEN pc' = "loop" /\ UNCHANGED <<cur, attempted>>
                ELSE /\ pc' = "pull"
                     /\ cur' = argv[1]
                     /\ attempted' = Append(attempted, argv[1])
             /\ UNCHANGED <<raised, exitCode>>
        ELSE /\ raised' = TRUE
             /\ exitCode' = 1
             /\ pc' = "done"
             /\ UNCHANGED <<connected, cur, attempted>>
    /\ UNCHANGED <<parseVars, latestVars, catalogVars, variant, argv, srcDirs, dirs, idx, loc, ran,
                   readme, failedLog>>

\* generate_image_readme.py main, lines 71-76: the for statement takes the next
\* directory, or the loop ends and main returns
LoopHead ==
    /\ pc = "loop"
    /\ IF idx < Len(dirs)
       THEN /\ idx' = idx + 1
            /\ cur' = dirs[idx + 1]
            /\ attempted' = Append(attempted, dirs[idx + 1])
            /\ loc' = NoLocals
            /\ ran' = <<>>
            /\ pc' = "pull"
            /\ UNCHANGED exitCode
       ELSE /\ pc' = "done"
            /\ exitCode' = 0
            /\ UNCHANGED <<idx, cur, attempted, loc, ran>>
    /\ UNCHANGED <<parseVars, latestVars, catalogVars, variant, argv, srcDirs, dirs, connected, readme,
                   failedLog, raised>>

\* image = pull_image(client, image_uri)
PullImage ==
    /\ pc = "pull"
    /\ \E stream \in PullStreams, cached \in BOOLEAN :
        LET r == pull_image(stream, cached)
            p == [stream |-> stream, cached |-> cached, result |-> r]
        IN IF r = "image"
           THEN /\ loc' = [loc EXCEPT !.pull = p]
                /\ pc' = "arch"
                /\ UNCHANGED <<failedLog, exitCode, raised>>
           ELSE StepFails(r, [loc EXCEPT !.pull = p])
    /\ UNCHANGED <<parseVars, latestVars, catalogVars, variant, argv, srcDirs, dirs, idx, cur, connected,
                   ran, readme, attempted>>

\* arch = get_arch(client, image): the image's Architecture attribute,
\* "unknown" when it has none; client.images.get may raise
GetArch ==
    /\ pc = "arch"
    /\ \E a \in {"amd64", "unknown", "APIError"} :
        IF a # "APIError"
        THEN /\ loc' = [loc EXCEPT !.arch = a]
             /\ pc' = "os_release"
             /\ UNCHANGED <<failedLog, exitCode, raised>>
        ELSE StepFails(a, loc)
    /\ UNCHANGED <<parseVars, latestVars, catalogVars, variant, argv, srcDirs, dirs, idx, cur, connected,
                   ran, readme, attempted>>

\* os_release = parse_kv(run_cmd(client, image_uri, "cat /etc/os-release", arch))
RunOsRelease ==
    /\ pc = "os_release"
    /\ \E o \in RunOutcomes(CmdOsRelease) :
        LET r == run_cmd(CmdOsRelease, o) IN
        /\ ran' = Append(ran, r)
        /\ IF r.res = "ok"
           THEN /\ loc' = [loc EXCEPT !.os_release = ParseOsRelease(variant, r.out)]
                /\ pc' = "env"
                /\ UNCHANGED <<failedLog, exitCode, raised>>
           ELSE StepFails(r.res, loc)
    /\ UNCHANGED <<parseVars, latestVars, catalogVars, variant, argv, srcDirs, dirs, idx, cur, connected,
                   readme, attempted>>

\* env_vars = run_cmd(client, image_uri, "env", arch).splitlines()
RunEnv ==
    /\ pc = "env"
    /\ \E o \in RunOutcomes(CmdEnv) :
        LET r == run_cmd(CmdEnv, o) IN
        /\ ran' = Append(ran, r)
        /\ IF r.res = "ok"
           THEN /\ loc' = [loc EXCEPT !.env_vars = LinesOf(variant, r.out)]
                /\ pc' = "pkg_primary"
                /\ UNCHANGED <<failedLog, exitCode, raised>>
           ELSE StepFails(r.res, loc)
    /\ UNCHANGED <<parseVars, latestVars, catalogVars, variant, argv, srcDirs, dirs, idx, cur, connected,
                   readme, attempted>>

\* get_pkgs / run_command_with_fallback, the outer try: "apk info".
\* pkgStep records how far the call got: "primary" returned the primary's lines,
\* "fallback" is inside the first except clause, "raised" an exception left it.
PkgPrimary ==
    /\ pc = "pkg_primary"
    /\ \E o \in RunOutcomes(CmdApk) :
        LET r == run_cmd(CmdApk, o) IN
        /\ ran' = Append(ran, r)
        /\ IF r.res = "ok"
           THEN /\ loc' = [loc EXCEPT !.pkgs = LinesOf(variant, r.out),
                                      !.pkgStep = "primary"]
                /\ pc' = "local_bins"
                /\ UNCHANGED <<failedLog, exitCode, raised>>
           ELSE IF PkgCatches(variant, r.res)
           THEN /\ loc' = [loc EXCEPT !.pkgStep = "fallback"]
                /\ pc' = "pkg_secondary"
                /\ UNCHANGED <<failedLog, exitCode, raised>>
           ELSE StepFails(r.res, [loc EXCEPT !.pkgStep = "raised"])
    /\ UNCHANGED <<parseVars, latestVars, catalogVars, variant, argv, srcDirs, dirs, idx, cur, connected,
                   readme, attempted>>

\* the inner try: "sh -c 'apt list | tail -n +2'"; its except clause prints
\* [WARN] and returns []
PkgSecondary ==
    /\ pc = "pkg_secondary"
    /\ \E o \in RunOutcomes(CmdApt) :
        LET r == run_cmd(CmdApt, o) IN
        /\ ran' = Append(ran, r)
        /\ IF r.res = "ok"
           THEN /\ loc' = [loc EXCEPT !.pkgs = LinesOf(variant, r.out),
                                      !.pkgStep = "secondary"]
                /\ pc' = "local_bins"
                /\ UNCHANGED <<failedLog, exitCode, raised>>
           ELSE IF PkgCatches(variant, r.res)
           THEN /\ loc' = [loc EXCEPT !.pkgs = <<>>, !.pkgStep = "empty",
                                      !.warned = TRUE]
                /\ pc' = "local_bins"
                /\ UNCHANGED <<failedLog, exitCode, raised>>
           ELSE StepFails(r.res, [loc EXCEPT !.pkgStep = "raised"])
    /\ UNCHANGED <<parseVars, latestVars, catalogVars, variant, argv, srcDirs, dirs, idx, cur, connected,
                   readme, attempted>>

\* local_bins = run_cmd(client, image_uri, "ls -1 /usr/local/bin", arch).splitlines()
RunLocalBins ==
    /\ pc = "local_bins"
    /\ \E o \in RunOutcomes(CmdLocalBins) :
        LET r == run_cmd(CmdLocalBins, o) IN
        /\ ran' = Append(ran, r)
        /\ IF r.res = "ok"
           THEN /\ loc' = [loc EXCEPT !.local_bins = LinesOf(variant, r.out)]
                /\ pc' = "template"
                /\ UNCHANGED <<failedLog, exitCode, raised>>
           ELSE StepFails(r.res, loc)
    /\ UNCHANGED <<parseVars, latestVars, catalogVars, variant, argv, srcDirs, dirs, idx, cur, connected,
                   readme, attempted>>

\* with open(README_TEMPLATE_PATH) as f: template = Template(f.read(), ...)
ReadTemplate ==
    /\ pc = "template"
    /\ \E t \in {"ok", "OSError", "TemplateSyntaxError"} :
        IF t = "ok"
        THEN /\ loc' = [loc EXCEPT !.template = "loaded"]
             /\ pc' = "render"
             /\ UNCHANGED <<failedLog, exitCode, raised>>
        ELSE StepFails(t, loc)
    /\ UNCHANGED <<parseVars, latestVars, catalogVars, variant, argv, srcDirs, dirs, idx, cur, connected,
                   ran, readme, attempted>>

\* the context handed to template.render
Context(image, l) ==
    [image |-> image,
     arch |-> l.arch,
     os_name |-> DictGet(l.os_release, <<"N","A","M","E">>),
     os_version_id |-> DictGet(l.os_release, <<"V","E","R","S","I","O","N","_","I","D">>),
     os_id |-> DictGet(l.os_release, <<"I","D">>),
     env_vars |-> l.env_vars,
     pkg_vars |-> l.pkgs,
     pkg_local |-> l.local_bins]

\* output = template.render(context=..., updated_at=...)
Render ==
    /\ pc = "render"
    /\ \E t \in {"ok", "TemplateError"} :
        IF t = "ok"
        THEN /\ loc' = [loc EXCEPT !.output = Context(cur, loc), !.rendered = TRUE]
             /\ pc' = "write"
             /\ UNCHANGED <<failedLog, exitCode, raised>>
        ELSE StepFails(t, loc)
    /\ UNCHANGED <<parseVars, latestVars, catalogVars, variant, argv, srcDirs, dirs, idx, cur, connected,
                   ran, readme, attempted>>

\* with open(readme_path, "w") as f: f.write(output).  open truncates the
\* file; either call may raise OSError.
WriteReadme ==
    /\ pc = "write"
    /\ \E w \in {"ok", "open_fails", "write_fails"} :
        CASE w = "ok" ->
                /\ readme' = [readme EXCEPT ![cur] = "new"]
                /\ loc' = loc
                /\ pc' = IF variant = "batch" THEN "loop" ELSE "done"
                /\ exitCode' = IF variant = "batch" THEN exitCode ELSE 0
                /\ UNCHANGED <<failedLog, raised>>
          [] w = "open_fails" ->
                /\ readme' = readme
                /\ StepFails("OSError", loc)
          [] w = "write_fails" ->
                /\ readme' = [readme EXCEPT ![cur] = "truncated"]
                /\ StepFails("OSError", loc)
    /\ UNCHANGED <<parseVars, latestVars, catalogVars, variant, argv, srcDirs, dirs, idx, cur, connected,
                   ran, attempted>>

IntroNext ==
    \/ CheckArgs
    \/ Connect
    \/ LoopHead
    \/ PullImage
    \/ GetArch
    \/ RunOsRelease
    \/ RunEnv
    \/ PkgPrimary
    \/ PkgSecondary
    \/ RunLocalBins
    \/ ReadTemplate
    \/ Render
    \/ WriteReadme

Spec == IntroInit /\ [][IntroNext]_vars

(***************************************************************************)
(* Observations on the current image                                       *)
(***************************************************************************)
\* the commands run so far for the current image, in order
CmdsRun == [i \in 1..Len(ran) |-> ran[i].cmd]

IsPkgCmd(r) == r.cmd \in {CmdApk, CmdApt}

\* the runs of the package step
PkgRuns == SelectSeq(ran, IsPkgCmd)

\* the package step was entered and control has left it
PkgStepLeft == PkgRuns # <<>> /\ pc # "pkg_secondary"

\* processing of the current image has ended
ImageEnded == cur # None /\ pc \in {"loop", "done"}

IsPrefix(s, t) == Len(s) <= Len(t) /\ s = SubSeq(t, 1, Len(s))

(***************************************************************************)
(* C1: the package-listing step never lets an exception escape: whatever   *)
(* the outcomes of "apk info" and "apt list" (missing binary, non-zero     *)
(* exit, daemon API error, or any other error raised while running the     *)
(* command or decoding its output), the step returns a list.               *)
(***************************************************************************)
C1_PackageStepNeverRaises ==
    PkgStepLeft =>
        loc.pkgStep \in {"primary", "secondary", "empty"}

(***************************************************************************)
(* C2: fallback order and result: the primary command is attempted first;  *)
(* the secondary is run if and only if the primary failed; the result is   *)
(* the primary's lines if it succeeded, the secondary's lines if only the  *)
(* primary failed, and the empty list with a warning if both failed; at    *)
(* most two containers are run by the step.                                *)
(***************************************************************************)
C2_FallbackOrderAndResult ==
    PkgStepLeft =>
        /\ Len(PkgRuns) <= 2
        /\ PkgRuns[1].cmd = CmdApk
        /\ Len(PkgRuns) = 2 <=> PkgRuns[1].res # "ok"
        /\ Len(PkgRuns) = 2 => PkgRuns[2].cmd = CmdApt
        /\ PkgRuns[1].res = "ok" => loc.pkgs = LinesOf(variant, PkgRuns[1].out)
        /\ (Len(PkgRuns) = 2 /\ PkgRuns[2].res = "ok") =>
               loc.pkgs = LinesOf(variant, PkgRuns[2].out)
        /\ (Len(PkgRuns) = 2 /\ PkgRuns[2].res # "ok") =>
               loc.pkgs = <<>> /\ loc.warned

C5_FailedPullIsFatal ==
    (cur # None /\ loc.pull.stream \notin {"none", "ok"}) =>
        /\ loc.pull.result # "image"
        /\ ImageEnded
        /\ ran = <<>>
        /\ readme[cur] = "old"

(***************************************************************************)
(* C6: in the batch introspector a failure while processing one image is   *)
(* caught and logged and does not stop the run: every image directory      *)
(* found is attempted exactly once, in the enumeration order, the run      *)
(* never stops before the loop is through, and main returns without        *)
(* raising.                                                                *)
(***************************************************************************)
C6_BatchAttemptsEveryImage ==
    (variant = "batch" /\ connected) =>
        /\ attempted = SubSeq(dirs, 1, idx)
        /\ ~raised
        /\ (ImageEnded /\ loc.failedAt # None) =>
               failedLog # <<>> /\ failedLog[Len(failedLog)] = cur
        /\ pc # "done" => ENABLED IntroNext
        /\ pc = "done" => attempted = dirs /\ exitCode = 0

\* the first of two images failed and the run went through both
C6_FailureThenNextImage ==
    /\ variant = "batch"
    /\ pc = "done"
    /\ Len(dirs) = 2
    /\ attempted = dirs
    /\ failedLog = <<dirs[1]>>
    /\ readme[dirs[2]] = "new"

LatestInit ==
    /\ ParseIdle
    /\ IntroIdle
    /\ CatalogIdle
    /\ lIn \in Responses(ImageLists)
    /\ lFn = "none"
    /\ lOut = Sentinel

\* generate_main_readme.py looks a repository up
LookupMain ==
    /\ lFn = "none"
    /\ lFn' = "generate_main_readme"
    /\ lOut' = get_latest_image_info(lIn)
    /\ UNCHANGED <<lIn, parseVars, introVars, catalogVars>>

\* docs_ecr_image_list.py looks a repository up
LookupDocs ==
    /\ lFn = "none"
    /\ lFn' = "docs_ecr_image_list"
    /\ lOut' = get_latest_image_info_docs(lIn)
    /\ UNCHANGED <<lIn, parseVars, introVars, catalogVars>>

LatestNext == LookupMain \/ LookupDocs

SpecLatest == LatestInit /\ [][LatestNext]_vars

(***************************************************************************)
(* C7: latest-tag invariant of get_latest_image_info: the returned tag is  *)
(* "latest" only if no image of the repository carries a tag other than    *)
(* "latest"; whenever some image has another tag, the returned tag differs *)
(* from "latest".  A repository whose only image is tagged only "latest"   *)
(* resolves to "latest", one whose only image has no tags to "<none>".     *)
(***************************************************************************)
SomeNonLatestTag(images) ==
    \E i \in 1..Len(images) :
        \E j \in 1..Len(images[i].imageTags) : images[i].imageTags[j] # LATEST

C7_LatestOnlyWithoutOtherTags ==
    (lFn \in {"generate_main_readme", "docs_ecr_image_list"} /\ lIn.kind = "ok") =>
        /\ lOut.exc = "none"
        /\ lOut.tag = LATEST => ~SomeNonLatestTag(lIn.images)
        /\ SomeNonLatestTag(lIn.images) => lOut.tag # LATEST
        /\ (Len(lIn.images) = 1 /\ lIn.images[1].imageTags = <<LATEST>>) =>
               lOut.tag = LATEST
        /\ (Len(lIn.images) = 1 /\ lIn.images[1].imageTags = <<>>) =>
               lOut.tag = NONE_TAG

\* a later image tagged only "latest" beside an earlier one tagged "latest", "v1"
C7_LatestBesideVersionTag ==
    /\ lFn = "generate_main_readme"
    /\ lIn.kind = "ok"
    /\ Len(lIn.images) = 2
    /\ lIn.images[1].imageTags = <<LATEST>>
    /\ lIn.images[1].imagePushedAt = 2
    /\ lIn.images[2].imageTags = <<LATEST, "v1">>
    /\ lIn.images[2].imagePushedAt = 1
    /\ lOut.tag = "v1"

CatalogInit ==
    /\ ParseIdle
    /\ IntroIdle
    /\ LatestIdle
    /\ script \in {"generate_main_readme", "docs_ecr_image_list"}
    /\ \E ps \in PageLists : pages = [i \in 1..Len(ps) |-> AsRepos(ps[i])]
    /\ cpc = IF script = "generate_main_readme" THEN "template" ELSE "client"
    /\ fetched = 0
    /\ listAcc = <<>>
    /\ listFailed = FALSE
    /\ repos = <<>>
    /\ resp = <<>>
    /\ items = <<>>
    /\ outFile = "old"
    /\ craised = FALSE

otherVars == <<parseVars, introVars, latestVars>>

\* generate_main_readme.py main, lines 88-89: load_template and Template(...)
LoadTemplate ==
    /\ cpc = "template"
    /\ \E ok \in BOOLEAN :
        IF ok THEN cpc' = "client" /\ UNCHANGED craised
        ELSE cpc' = "done" /\ craised' = TRUE
    /\ UNCHANGED <<otherVars, script, pages, fetched, listAcc, listFailed, repos,
                   resp, items, outFile>>

\* client = get_ecr_client()
GetEcrClient ==
    /\ cpc = "client"
    /\ \E ok \in BOOLEAN :
        IF ok THEN cpc' = "list" /\ UNCHANGED craised
        ELSE cpc' = "done" /\ craised' = TRUE
    /\ UNCHANGED <<otherVars, script, pages, fetched, listAcc, listFailed, repos,
                   resp, items, outFile>>

\* get_repositories: one turn of "for page in paginator.paginate()".  The
\* request for the page succeeds and its repositories are filtered into
\* repos, or it raises: the handler prints [ERROR] and re-raises, main ends.
FetchPage ==
    /\ cpc = "list"
    /\ fetched < Len(pages)
    /\ \E ok \in BOOLEAN :
        IF ok
        THEN /\ fetched' = fetched + 1
             /\ listAcc' = listAcc \o
                    FilterPage(pages[fetched + 1], AWS_ECR_PUBLIC_REPOSITORY_GROUP \o <<"/">>)
             /\ UNCHANGED <<cpc, listFailed, craised, repos>>
        ELSE /\ listFailed' = TRUE
             /\ IF ListingFailureReraised
                THEN cpc' = "done" /\ craised' = TRUE /\ UNCHANGED repos
                ELSE cpc' = "lookup" /\ repos' = SortedByName(listAcc) /\ UNCHANGED craised
             /\ UNCHANGED <<fetched, listAcc>>
    /\ UNCHANGED <<otherVars, script, pages, resp, items, outFile>>

\* get_repositories returns after the last page; main sorts the list
ListReturn ==
    /\ cpc = "list"
    /\ fetched = Len(pages)
    /\ repos' = SortedByName(listAcc)
    /\ cpc' = "lookup"
    /\ UNCHANGED <<otherVars, script, pages, fetched, listAcc, listFailed, resp,
                   items, outFile, craised>>

\* one turn of "for i, repo in enumerate(repos, 1)"
Lookup ==
    /\ cpc = "lookup"
    /\ Len(items) < Len(repos)
    /\ \E response \in Responses(CatalogImageLists) :
        LET i == Len(items) + 1
            name == repos[i].repositoryName
            latest == LatestOf(script, response)
        IN /\ resp' = Append(resp, response)
           /\ IF latest.exc = "none"
              THEN /\ items' = Append(items, Item(i, name, latest))
                   /\ UNCHANGED <<cpc, craised>>
              ELSE /\ cpc' = "done"
                   /\ craised' = TRUE
                   /\ UNCHANGED items
    /\ UNCHANGED <<otherVars, script, pages, fetched, listAcc, listFailed, repos,
                   outFile>>

\* template.render(items=items, ...) / build_markdown(items, updated_time) and
\* the notebook built around it
RenderCatalog ==
    /\ cpc = "lookup"
    /\ Len(items) = Len(repos)
    /\ \E ok \in BOOLEAN :
        IF ok THEN cpc' = "write" /\ UNCHANGED craised
        ELSE cpc' = "done" /\ craised' = TRUE
    /\ UNCHANGED <<otherVars, script, pages, fetched, listAcc, listFailed, repos,
                   resp, items, outFile>>

\* with open(README_OUTPUT_PATH, "w") as f: f.write(output) / nbf.write(nb, f)
WriteCatalog ==
    /\ cpc = "write"
    /\ \E w \in {"ok", "open_fails", "write_fails"} :
        /\ outFile' = CASE w = "ok" -> "new"
                        [] w = "open_fails" -> outFile
                        [] w = "write_fails" -> "truncated"
        /\ craised' = (w # "ok")
    /\ cpc' = "done"
    /\ UNCHANGED <<otherVars, script, pages, fetched, listAcc, listFailed, repos,
                   resp, items>>

CatalogNext ==
    \/ LoadTemplate
    \/ GetEcrClient
    \/ FetchPage
    \/ ListReturn
    \/ Lookup
    \/ RenderCatalog
    \/ WriteCatalog

SpecCatalog == CatalogInit /\ [][CatalogNext]_vars

(***************************************************************************)
(* Observations on a run of the enumerator                                 *)
(***************************************************************************)
BasePrefix == <<"b","a","s","e","/">>
NameBaseA == <<"b","a","s","e","/","a">>
NameBaseB == <<"b","a","s","e","/","b">>

\* the names of all repositories on the registry's pages
ListedNames == UNION {{pages[p][i].repositoryName : i \in 1..Len(pages[p])} : p \in 1..Len(pages)}

\* those the catalog is about
WantedNames == {n \in ListedNames : StartsWith(n, BasePrefix)}

\* the lookup compares a missing push timestamp with a present one
ComparisonFails(images) ==
    LET pool == IF SomeNonLatestTag(images)
                THEN {i \in 1..Len(images) : HasNonLatestTag(images[i])}
                ELSE 1..Len(images)
    IN \E i, j \in pool :
        images[i].imagePushedAt = Absent /\ images[j].imagePushedAt # Absent

\* a response for which the lookup has nothing to report: the fetch raised,
\* the repository holds no image, or evaluating the details raised
LookupDegrades(response) ==
    \/ response.kind # "ok"
    \/ response.images = <<>>
    \/ ComparisonFails(response.images)

(***************************************************************************)
(* C8: get_latest_image_info never propagates a failure: a repository      *)
(* without images, a repository that is not found and any other failure    *)
(* while fetching or evaluating the image details (a failed comparison of  *)
(* push timestamps too) yield ("<none>", 0); the loop goes on and the      *)
(* catalog holds a row for that repository.                                *)
(***************************************************************************)
C8_LookupNeverPropagates ==
    /\ Len(items) = Len(resp)
    /\ \A i \in 1..Len(resp) :
        /\ items[i].name = repos[i].repositoryName
        /\ LookupDegrades(resp[i]) =>
               /\ items[i].latest_tag = NONE_TAG
               /\ items[i].image_size_mb = <<"0",".","0","0">>
    /\ cpc = "write" => Len(items) = Len(repos)

\* the lookup of the first repository failed, the second one got its row
C8_RowAfterFailedLookup ==
    /\ cpc = "write"
    /\ Len(items) = 2
    /\ resp[1].kind = "ClientError"
    /\ items[1].latest_tag = NONE_TAG
    /\ resp[2] = [kind |-> "ok", images |-> <<ImgNoTime, ImgV1>>]
    /\ items[2].latest_tag = NONE_TAG

(***************************************************************************)
(* C9: a failure of the paginated repository listing, on the first page or *)
(* a later one, propagates out of get_repositories and aborts the run: no  *)
(* partial list is returned, no latest-image lookup is made and the        *)
(* catalog file is neither written nor overwritten.                        *)
(***************************************************************************)
C9_ListingFailureAborts ==
    listFailed =>
        /\ craised
        /\ cpc = "done"
        /\ repos = <<>>
        /\ resp = <<>>
        /\ items = <<>>
        /\ outFile = "old"

\* the listing failed on a later page, with repositories already collected
C9_FailureOnLaterPage ==
    /\ listFailed
    /\ fetched >= 1
    /\ listAcc # <<>>
    /\ cpc = "done"

(***************************************************************************)
(* C10: catalog construction: the item list holds exactly one row per      *)
(* repository whose name starts with "base/" and no other row, in          *)
(* ascending lexicographic order of the names whatever the API order, and  *)
(* numbered 1..n; "base/a" with one image tagged "v1" and "base/b" without *)
(* images give the two rows base/a, v1 and base/b, <none>.                 *)
(***************************************************************************)
C10_CatalogRows ==
    /\ \A i \in 1..Len(items) :
        /\ items[i].number = i
        /\ items[i].name \in WantedNames
        /\ \A j \in 1..Len(items) : i < j => StrLess(items[i].name, items[j].name)
    /\ cpc = "write" =>
        /\ {items[i].name : i \in 1..Len(items)} = WantedNames
        /\ Len(items) = Cardinality(WantedNames)
        /\ (/\ WantedNames = {NameBaseA, NameBaseB}
            /\ resp = <<[kind |-> "ok", images |-> <<ImgV1>>],
                        [kind |-> "ok", images |-> <<>>]>>) =>
               /\ items[1].name = NameBaseA /\ items[1].latest_tag = "v1"
               /\ items[2].name = NameBaseB /\ items[2].latest_tag = NONE_TAG

\* the API lists base/b before base/a; the rows are base/a, v1 and base/b, <none>
C10_ExampleCatalog ==
    /\ cpc = "write"
    /\ Len(pages[1]) >= 1
    /\ pages[1][1].repositoryName = NameBaseB
    /\ Len(items) = 2
    /\ items[1].name = NameBaseA
    /\ items[1].latest_tag = "v1"
    /\ items[1].image_size_mb = <<"1","0",".","0","0">>
    /\ items[2].name = NameBaseB
    /\ items[2].latest_tag = NONE_TAG

(***************************************************************************)
(* C11: single-image argument validation: the single-image variant exits   *)
(* with a non-zero status when the argument count is not one or the        *)
(* source directory of the given name does not exist, and it does so       *)
(* before connecting to the container runtime, pulling an image or         *)
(* writing a file.                                                         *)
(***************************************************************************)
C11_BadArgsExitBeforeAnything ==
    (variant = "single" /\ (Len(argv) # 1 \/ argv[1] \notin srcDirs)) =>
        /\ pc \in {"args", "done"}
        /\ pc = "done" => exitCode = 1
        /\ ~connected
        /\ ~raised
        /\ cur = None
        /\ attempted = <<>>
        /\ loc = NoLocals
        /\ ran = <<>>
        /\ \A d \in DOMAIN readme : readme[d] = "old"

\* one argument, naming a directory that does not exist: exit status 1
C11_MissingDirectoryExit ==
    /\ variant = "single"
    /\ Len(argv) = 1
    /\ argv[1] \notin srcDirs
    /\ srcDirs # {}
    /\ pc = "done"
    /\ exitCode = 1

(***************************************************************************)
(* C12: image selection in get_latest_image_info: the selection pool is    *)
(* the set of images with at least one tag other than "latest" when that   *)
(* set is not empty, and all images otherwise; the returned tag and the    *)
(* returned size are both taken from one image of the pool whose push      *)
(* timestamp is greater than or equal to that of every other image of the  *)
(* pool (an image without a push timestamp counting as the oldest).        *)
(***************************************************************************)
SelectionPool(images) ==
    IF SomeNonLatestTag(images)
    THEN {i \in 1..Len(images) : HasNonLatestTag(images[i])}
    ELSE 1..Len(images)

\* the result is the tag and the size of image i
TakenFrom(out, img) ==
    /\ out.size_mb = Quot(img.imageSizeInBytes, MiB)
    /\ \/ \E k \in 1..Len(img.imageTags) : out.tag = img.imageTags[k]
       \/ img.imageTags = <<>> /\ out.tag = NONE_TAG

C12_TagAndSizeFromNewestOfPool ==
    (/\ lFn \in {"generate_main_readme", "docs_ecr_image_list"}
     /\ lIn.kind = "ok"
     /\ lIn.images # <<>>) =>
        \E i \in SelectionPool(lIn.images) :
            /\ \A j \in SelectionPool(lIn.images) :
                   lIn.images[i].imagePushedAt >= lIn.images[j].imagePushedAt
            /\ TakenFrom(lOut, lIn.images[i])

\* the part of C12 the code meets: whenever the push timestamps of the pool
\* can be compared with one another
C12_WhenTimestampsComparable ==
    ~ComparisonFails(lIn.images) => C12_TagAndSizeFromNewestOfPool

(***************************************************************************)
(* C13: all-or-nothing write in both introspector variants: the readme of  *)
(* an image is opened for writing only after the pull, the architecture    *)
(* lookup, the os-release, environment, package and local-binaries steps,  *)
(* the template read and the render have all completed for that image, in  *)
(* that order; if one of those steps fails, the existing readme is left    *)
(* unchanged, neither truncated nor partly written.                        *)
(***************************************************************************)
\* the steps before the write
StepsBeforeWrite ==
    {"pull", "arch", "os_release", "env", "pkg_primary", "pkg_secondary",
     "local_bins", "template", "render"}

\* every step before the write has completed for the current image; a step
\* completes when it returns to main without raising, so a pull whose stream
\* carried an error entry and that returned the cached copy counts as
\* completed here (that behaviour is the subject of C5)
AllStepsCompleted ==
    /\ loc.pull.stream \in {"ok", "error_entry"}
    /\ loc.pull.result = "image"
    /\ loc.arch # None
    /\ CmdsRun \in {<<CmdOsRelease, CmdEnv, CmdApk, CmdLocalBins>>,
                    <<CmdOsRelease, CmdEnv, CmdApk, CmdApt, CmdLocalBins>>}
    /\ \A i \in 1..Len(ran) : ~IsPkgCmd(ran[i]) => ran[i].res = "ok"
    /\ loc.pkgStep \in {"primary", "secondary", "empty"}
    /\ loc.template = "loaded"
    /\ loc.rendered
    /\ loc.failedAt \notin StepsBeforeWrite

=============================================================================
